---- MODULE Spec2Model ----
(***************************************************************************)
(* DiceIt: the round registry and settlement engine of GameManager         *)
(* (src/unnamed/part_000) together with the bot glue of DiceItBot          *)
(* (src/index.js) that opens rounds, schedules the countdown timer and     *)
(* drives executeRoll / finishGame.                                        *)
(*                                                                         *)
(* Every handler is an async JavaScript function.  The code between two    *)
(* awaits runs atomically on the event loop, so each such segment is one   *)
(* action; every await is a point where other handlers may run.  A store   *)
(* call (supabase) takes effect at the moment the awaiting handler         *)
(* resumes.  An await whose call writes nothing that any handler reads     *)
(* (a chat message, the users statistics, the aggregate columns of games)  *)
(* is not a separate action: it is fused with the segment that issues it.  *)
(*                                                                         *)
(* The store may fail any insert.  It fails a wallet update (the call       *)
(* returns an error and the row is left as it was) only while the variable *)
(* faults is positive: Spec, SpecWinners, SpecGroups and SpecUnits start  *)
(* with faults = 0, SpecJoins, SpecSettle, SpecCancel and SpecFair with    *)
(* faults = MaxFaults.                                                     *)
(*                                                                         *)
(* Amounts are JavaScript numbers; they are modelled as integers on a      *)
(* fixed-point grid (stakes are multiples of 600) on which the 2% fee and   *)
(* the division by up to four winners are exact.                           *)
(***************************************************************************)
EXTENDS Integers, Sequences, FiniteSets, TLC

\* ---------------------------------------------------------------- bounds
MaxStarts == 2      \* startGame calls (callback queries "start_...")
MaxJoins  == 2      \* joinGame calls (/dice commands)
MaxRolls  == 1      \* forced resolutions (/roll commands)
MaxInFlight == 2    \* handlers suspended at an await at the same time
MaxPlayers == 3     \* participants of the round settled under SpecWinners
MaxFaults == 1      \* wallet updates that the store fails under SpecJoins
                    \* and SpecSettle

\* ---------------------------------------------------------------- inputs
Groups      == {1}
Users       == {1, 2}
Tokens      == {"SOL", "USDC"}
\* the stakes of the /dice commands: 600 in SOL or 1200 in USDC
Stakes      == {[token |-> "SOL", amount |-> 600],
                [token |-> "USDC", amount |-> 1200]}
Guesses     == {3, 5}
DiceResults == {5}
DiceTypes   == {"D6"}

HOUSE_FEE_PERCENT == 2

\* ---------------------------------------------------------------- helpers
Abs(x) == IF x < 0 THEN -x ELSE x

getDiceConfig(diceType) ==
  CASE diceType = "D6"   -> [min |-> 1, max |-> 6]
    [] diceType = "D10"  -> [min |-> 1, max |-> 10]
    [] diceType = "D20"  -> [min |-> 1, max |-> 20]
    [] diceType = "D100" -> [min |-> 1, max |-> 100]
    [] OTHER             -> [min |-> 1, max |-> 6]

\* players.some(p => p.userId === userId)
HasPlayer(players, userId) ==
  \E i \in 1..Len(players) : players[i].userId = userId

\* players.map(player => ({...player, distance: |chosenNumber - diceResult|}))
WithDistance(players, diceResult) ==
  [i \in 1..Len(players) |->
     [userId |-> players[i].userId, amount |-> players[i].amount,
      token |-> players[i].token, chosenNumber |-> players[i].chosenNumber,
      betId |-> players[i].betId,
      distance |-> Abs(players[i].chosenNumber - diceResult)]]

\* Math.min(...distances), folded left to right; the list is never empty
RECURSIVE MinDistance(_)
MinDistance(ps) ==
  IF Len(ps) = 1 THEN ps[1].distance
  ELSE LET m == MinDistance(Tail(ps))
       IN IF ps[1].distance < m THEN ps[1].distance ELSE m

IsWinner(p, minDistance) == p.distance = minDistance

\* a tie broken by join order: only the first closest player wins
calculateWinnersFirst(players, diceResult) ==
  LET pwd == WithDistance(players, diceResult)
      minDistance == MinDistance(pwd)
      closest == SelectSeq(pwd, LAMBDA p : IsWinner(p, minDistance))
  IN <<closest[1]>>

calculateWinners(players, diceResult) ==
  LET pwd == WithDistance(players, diceResult)
      minDistance == MinDistance(pwd)
  IN SelectSeq(pwd, LAMBDA p : IsWinner(p, minDistance))

\* gameData.players.filter(p => !winners.find(w => w.userId === p.userId))
Losers(players, winners) ==
  SelectSeq(players, LAMBDA p : ~HasPlayer(winners, p.userId))

HouseFee(pot) == (pot * HOUSE_FEE_PERCENT) \div 100

\* the pot split without the fee
PayoutNoFee(pot, winners) == pot \div Len(winners)

\* (pot - houseFee) / winners.length
Payout(pot, winners) == (pot - HouseFee(pot)) \div Len(winners)

\* the stakes of a participant list in one unit
RECURSIVE SumAmounts(_, _)
SumAmounts(players, token) ==
  IF Len(players) = 0 THEN 0
  ELSE (IF players[1].token = token THEN players[1].amount ELSE 0)
       + SumAmounts(Tail(players), token)

\* ---------------------------------------------------------------- state
VARIABLES
  activeGames,   \* GameManager.activeGames: group -> game id, 0 = absent
  gameTimers,    \* GameManager.gameTimers: groups holding a timeout id
  games,         \* game objects (gameData and its row in table games)
  bets,          \* rows of table bets, with the ledger log of each stake
  wallets,       \* rows of table wallets: user -> token -> balance
  starts,        \* handleCallbackQuery("start_...") invocations
  joins,         \* joinGame invocations
  rolls,         \* countdown timers and executeRoll/finishGame chains
  faults         \* wallet updates that the store is still going to fail

vars == <<activeGames, gameTimers, games, bets, wallets, starts, joins, rolls,
          faults>>

StartSlots == 1..MaxStarts
JoinSlots  == 1..MaxJoins
RollSlots  == 1..(MaxStarts + MaxRolls)

IdleStart == [pc |-> "idle", group |-> 0, diceType |-> "", reopen |-> FALSE,
              error |-> ""]
DoneStart == [IdleStart EXCEPT !.pc = "done"]
IdleJoin  == [pc |-> "idle", group |-> 0, userId |-> 0, amount |-> 0,
              token |-> "", chosenNumber |-> 0, gameId |-> 0, balance |-> 0,
              betId |-> 0, late |-> FALSE, error |-> ""]
DoneJoin  == [IdleJoin EXCEPT !.pc = "done"]
IdleRoll  == [pc |-> "idle", origin |-> "", group |-> 0, forGame |-> 0,
              gameId |-> 0, diceResult |-> 0, winners |-> <<>>,
              payoutSOL |-> 0, payoutUSDC |-> 0, idx |-> 0, balance |-> 0,
              losers |-> <<>>, error |-> ""]

DoneRoll(r) == [IdleRoll EXCEPT !.pc = "done", !.origin = r.origin]

\* first unused slot of a process table, 0 when all are used
FreeSlot(table, slots) ==
  IF \E k \in slots : table[k].pc = "idle"
  THEN CHOOSE k \in slots : table[k].pc = "idle" /\
                            \A j \in slots : j < k => table[j].pc # "idle"
  ELSE 0

\* handlers that have started and not yet returned (a pending countdown
\* is not a running handler)
InFlight ==
  Cardinality({k \in StartSlots : starts[k].pc \notin {"idle", "done"}})
  + Cardinality({k \in JoinSlots : joins[k].pc \notin {"idle", "done"}})
  + Cardinality({k \in RollSlots : rolls[k].pc \notin {"idle", "countdown", "done"}})

Init ==
  /\ activeGames = [g \in Groups |-> 0]
  /\ gameTimers = {}
  /\ games = <<>>
  /\ bets = <<>>
  /\ wallets = [u \in Users |-> [t \in Tokens |-> 1200]]
  /\ starts = [k \in StartSlots |-> IdleStart]
  /\ joins = [k \in JoinSlots |-> IdleJoin]
  /\ rolls = [k \in RollSlots |-> IdleRoll]
  /\ faults = 0


\* a fresh gameData (part_000:186-193) with its row in table games
\* (status 'waiting', dice_result not set = 0); tornDownBy records which
\* resolution removed it and reopened that startGame was called after a
\* round of the group had been torn down
NewGame(g, diceType) ==
  [group |-> g, diceType |-> diceType, diceConfig |-> getDiceConfig(diceType),
   players |-> <<>>, pot |-> [t \in Tokens |-> 0],
   status |-> "waiting", diceResult |-> 0,
   tornDownBy |-> "none", reopened |-> FALSE]

\* a round of group g has been settled or cancelled and removed
TornDown(g) ==
  \E id \in 1..Len(games) :
    games[id].group = g /\ games[id].tornDownBy # "none"

\* ------------------------------------------------------------ startGame
\* `if (this.activeGames.has(groupId)) return { error: ... }`, as the error
\* startGame returns before its first await ("" = none)
StartGameErrorNever(g) == ""

StartGameError(g) ==
  IF activeGames[g] # 0 THEN "AlreadyActive" ELSE ""

\* startGame has returned { error }: handleCallbackQuery awaits the
\* answerCallbackQuery that shows it
ReplyStart(error) == [IdleStart EXCEPT !.pc = "reply", !.error = error]

\* handleCallbackQuery 'start_': startGame up to its await of the insert
StartGameCall(g, diceType) ==
  LET k == FreeSlot(starts, StartSlots) IN
  /\ k # 0
  /\ InFlight < MaxInFlight
  /\ starts' = [starts EXCEPT ![k] =
       IF StartGameError(g) # "" THEN ReplyStart(StartGameError(g))
       ELSE [IdleStart EXCEPT !.pc = "insert", !.group = g,
                              !.diceType = diceType,
                              !.reopen = TornDown(g)]]
  /\ UNCHANGED <<activeGames, gameTimers, games, bets, wallets, joins, rolls, faults>>

\* the insert into games returns: error ('Failed to create game'), or
\* activeGames.set(groupId, ...);
\* then handleCallbackQuery awaits editMessageText and calls
\* setTimeout(() => this.executeRoll(chatId), ...).  The timeout id is not
\* stored in gameTimers.  forGame records the round whose opening scheduled
\* the timer.
StartGameInsert(k) ==
  LET r == FreeSlot(rolls, RollSlots) IN
  /\ starts[k].pc = "insert"
  /\ r # 0
  /\ \E ok \in BOOLEAN :
       IF ok
       THEN /\ games' = Append(games,
                        [NewGame(starts[k].group, starts[k].diceType)
                           EXCEPT !.reopened = starts[k].reopen])
            /\ activeGames' = [activeGames EXCEPT ![starts[k].group] = Len(games) + 1]
            /\ rolls' = [rolls EXCEPT ![r] =
                 [IdleRoll EXCEPT !.pc = "countdown", !.origin = "timer",
                                  !.group = starts[k].group,
                                  !.forGame = Len(games) + 1]]
            /\ starts' = [starts EXCEPT ![k] = DoneStart]
       ELSE /\ starts' = [starts EXCEPT ![k] = ReplyStart("PersistenceFailure")]
            /\ UNCHANGED <<games, activeGames, rolls>>
  /\ UNCHANGED <<gameTimers, bets, wallets, joins, faults>>

\* handleCallbackQuery: the answerCallbackQuery that shows result.error
\* returns
StartGameReply(k) ==
  /\ starts[k].pc = "reply"
  /\ starts' = [starts EXCEPT ![k] = DoneStart]
  /\ UNCHANGED <<activeGames, gameTimers, games, bets, wallets, joins, rolls, faults>>

\* ------------------------------------------------------------- joinGame
\* `token === 'SOL' ? 'sol_balance' : 'usdc_balance'`: the wallet column a
\* token spelling selects, named by its unit
BalanceField(token) == IF token = "SOL" THEN "SOL" ELSE "USDC"

\* `undefined + amount`
NaN == "NaN"

\* gameData.pot[token] += amount: pot starts as { SOL: 0, USDC: 0 }; any
\* other key is created, and stays, NaN
AddToPot(pot, token, amount) ==
  IF token \in Tokens THEN [pot EXCEPT ![token] = @ + amount]
  ELSE [t \in DOMAIN pot \cup {token} |-> IF t = token THEN NaN ELSE pot[t]]

Player(j) ==
  [userId |-> j.userId, amount |-> j.amount, token |-> j.token,
   chosenNumber |-> j.chosenNumber, betId |-> j.betId]

\* gameData.players.push(...); gameData.pot[token] += amount
AddPlayerNoPot(gameData, player) ==
  [gameData EXCEPT !.players = Append(@, player)]

AddPlayer(gameData, player) ==
  [gameData EXCEPT !.players = Append(@, player),
                   !.pot = AddToPot(@, player.token, player.amount)]

\* the validation of part_000:202-217, as the error it returns ("" = none)
JoinValidationNoRange(g, userId, chosenNumber) ==
  IF activeGames[g] = 0 THEN "NoActiveRound"
  ELSE IF HasPlayer(games[activeGames[g]].players, userId) THEN "AlreadyJoined"
       ELSE ""

JoinValidation(g, userId, chosenNumber) ==
  IF activeGames[g] = 0 THEN "NoActiveRound"
  ELSE LET gameData == games[activeGames[g]] IN
       IF chosenNumber < gameData.diceConfig.min
          \/ chosenNumber > gameData.diceConfig.max THEN "InvalidGuess"
       ELSE IF HasPlayer(gameData.players, userId) THEN "AlreadyJoined"
       ELSE ""

\* rollDice (or the cancelGame it calls) has taken game id and not returned
Settling(id) ==
  \E k \in RollSlots :
    /\ rolls[k].gameId = id
    /\ rolls[k].pc \notin {"idle", "countdown", "anim", "reply", "done"}

\* joinGame has returned { error }: handleDice awaits the sendMessage that
\* shows it
ReplyJoin(error) == [IdleJoin EXCEPT !.pc = "reply", !.error = error]

\* joinGame up to its await of the wallet select; late records that the
\* call arrived while the round was being resolved
JoinGameCall(g, userId, amount, token, chosenNumber) ==
  LET k == FreeSlot(joins, JoinSlots) IN
  /\ k # 0
  /\ InFlight < MaxInFlight
  /\ joins' = [joins EXCEPT ![k] =
       IF JoinValidation(g, userId, chosenNumber) # ""
       THEN ReplyJoin(JoinValidation(g, userId, chosenNumber))
       ELSE [IdleJoin EXCEPT !.pc = "wallet", !.group = g, !.userId = userId,
                             !.amount = amount, !.token = token,
                             !.chosenNumber = chosenNumber,
                             !.gameId = activeGames[g],
                             !.late = Settling(activeGames[g])]]
  /\ UNCHANGED <<activeGames, gameTimers, games, bets, wallets, starts, rolls, faults>>

\* the wallet row returns: balance pre-check (error `Insufficient ${token}
\* balance...`), then the insert into bets
JoinGameWalletNoCheck(k) ==
  /\ joins[k].pc = "wallet"
  /\ joins' = [joins EXCEPT ![k].pc = "bet",
                            ![k].balance = wallets[joins[k].userId][BalanceField(joins[k].token)]]
  /\ UNCHANGED <<activeGames, gameTimers, games, bets, wallets, starts, rolls, faults>>

JoinGameWallet(k) ==
  LET j == joins[k]
      balance == wallets[j.userId][BalanceField(j.token)] IN
  /\ j.pc = "wallet"
  /\ joins' = [joins EXCEPT ![k] =
       IF balance < j.amount THEN ReplyJoin("InsufficientFunds")
       ELSE [j EXCEPT !.pc = "bet", !.balance = balance]]
  /\ UNCHANGED <<activeGames, gameTimers, games, bets, wallets, starts, rolls, faults>>

\* a row of table bets (distance -1 = distance_from_result not set);
\* debits/credits log the ledger writes made for this stake and stats the
\* columns of the participant's users row that settlement incremented for it
NewBet(j) ==
  [gameId |-> j.gameId, userId |-> j.userId, amount |-> j.amount,
   token |-> j.token, won |-> "unset", payout |-> 0, distance |-> -1,
   debits |-> 0, credits |-> 0, stats |-> {}]

\* the insert into bets returns: error ('Failed to place bet'), or the
\* wallet update is issued
JoinGameBetKeepsPlayer(k) ==
  LET j == joins[k] IN
  /\ j.pc = "bet"
  /\ joins' = [joins EXCEPT ![k] = ReplyJoin("PersistenceFailure")]
  /\ games' = [games EXCEPT ![j.gameId] = AddPlayer(@, Player(j))]
  /\ UNCHANGED <<activeGames, gameTimers, bets, wallets, starts, rolls, faults>>

JoinGameBet(k) ==
  LET j == joins[k] IN
  /\ j.pc = "bet"
  /\ \E ok \in BOOLEAN :
       IF ok
       THEN /\ bets' = Append(bets, NewBet(j))
            /\ joins' = [joins EXCEPT ![k].pc = "debit",
                                      ![k].betId = Len(bets) + 1]
       ELSE /\ joins' = [joins EXCEPT ![k] = ReplyJoin("PersistenceFailure")]
            /\ UNCHANGED bets
  /\ UNCHANGED <<activeGames, gameTimers, games, wallets, starts, rolls, faults>>

\* the wallet update (newBalance = balance - amount, from the balance read
\* earlier) returns, having written the row (ok) or not (the store reports
\* an error, which joinGame does not look at): players.push,
\* pot[token] += amount; the games update (num_players, pot_sol, pot_usdc)
\* is awaited and success returned
JoinGameDebit(k) ==
  LET j == joins[k] IN
  /\ j.pc = "debit"
  /\ \E ok \in BOOLEAN :
       IF ok
       THEN /\ wallets' = [wallets EXCEPT
                             ![j.userId][BalanceField(j.token)] = j.balance - j.amount]
            /\ bets' = [bets EXCEPT ![j.betId].debits = @ + 1]
            /\ UNCHANGED faults
       ELSE /\ faults > 0
            /\ faults' = faults - 1
            /\ UNCHANGED <<wallets, bets>>
  /\ games' = [games EXCEPT ![j.gameId] = AddPlayer(@, Player(j))]
  /\ joins' = [joins EXCEPT ![k] = DoneJoin]
  /\ UNCHANGED <<activeGames, gameTimers, starts, rolls>>

\* handleDice: the sendMessage that shows result.error returns
JoinGameReply(k) ==
  /\ joins[k].pc = "reply"
  /\ joins' = [joins EXCEPT ![k] = DoneJoin]
  /\ UNCHANGED <<activeGames, gameTimers, games, bets, wallets, starts, rolls, faults>>

\* ------------------------------------------- executeRoll / finishGame
\* executeRoll(chatId): `if (!gameData) return`; sendMessage and sendDice
\* are awaited, the outcome is drawn and finishGame is scheduled 4000 ms
\* later
ExecuteRoll(r, g, diceResult) ==
  IF activeGames[g] = 0 THEN DoneRoll(r)
  ELSE [r EXCEPT !.pc = "anim", !.group = g, !.diceResult = diceResult]

\* /roll by an admin: handleRoll, then executeRoll
HandleRoll(g) ==
  LET k == FreeSlot(rolls, RollSlots) IN
  /\ k # 0
  /\ InFlight < MaxInFlight
  /\ Cardinality({i \in RollSlots : rolls[i].origin = "forced"}) < MaxRolls
  /\ \E diceResult \in DiceResults :
       rolls' = [rolls EXCEPT ![k] =
         ExecuteRoll([IdleRoll EXCEPT !.origin = "forced"], g, diceResult)]
  /\ UNCHANGED <<activeGames, gameTimers, games, bets, wallets, starts, joins, faults>>

\* the countdown timeout fires: executeRoll(chatId)
TimerFire(k) ==
  /\ rolls[k].pc = "countdown"
  /\ InFlight < MaxInFlight
  /\ \E diceResult \in DiceResults :
       rolls' = [rolls EXCEPT ![k] =
         ExecuteRoll(rolls[k], rolls[k].group, diceResult)]
  /\ UNCHANGED <<activeGames, gameTimers, games, bets, wallets, starts, joins, faults>>

\* ------------------------------------------------------------- rollDice
\* rollDice has returned { error }: finishGame awaits the sendMessage that
\* shows it
ReplyRollError(r, error) ==
  [IdleRoll EXCEPT !.pc = "reply", !.origin = r.origin, !.group = r.group,
                   !.gameId = r.gameId, !.error = error]

\* finishGame -> rollDice up to its first await: no game ('No active game
\* found'), or no players (cancelGame up to its await of the games update),
\* or the status update
FinishGame(k) ==
  LET r == rolls[k]
      id == activeGames[r.group] IN
  /\ r.pc = "anim"
  /\ rolls' = [rolls EXCEPT ![k] =
       IF id = 0 THEN ReplyRollError(r, "NoActiveRound")
       ELSE IF Len(games[id].players) = 0
            THEN [r EXCEPT !.pc = "cancel", !.gameId = id]
            ELSE [r EXCEPT !.pc = "status", !.gameId = id]]
  /\ UNCHANGED <<activeGames, gameTimers, games, bets, wallets, starts, joins, faults>>

\* this.activeGames.delete(groupId); the gameTimers entry, when there is
\* one, is cleared: its pending countdown never fires
CleanUpGames(g, origin) ==
  IF activeGames[g] = 0 THEN games
  ELSE [games EXCEPT ![activeGames[g]].tornDownBy = origin]

CleanUpRolls(rs, g) ==
  [i \in RollSlots |->
     IF g \in gameTimers /\ rs[i].pc = "countdown" /\ rs[i].group = g
     THEN DoneRoll(rs[i]) ELSE rs[i]]

\* cancelGame without the removal of the registry entry
CancelGameKeepsEntry(k) ==
  LET r == rolls[k] IN
  /\ r.pc = "cancel"
  /\ games' = [games EXCEPT ![r.gameId].status = "cancelled"]
  /\ rolls' = [rolls EXCEPT ![k] = ReplyRollError(r, "EmptyRound")]
  /\ UNCHANGED <<activeGames, gameTimers, bets, wallets, starts, joins, faults>>

\* cancelGame: the games update (status 'cancelled') returns, clean up;
\* rollDice returns the error 'No players in game! Game cancelled.'
CancelGame(k) ==
  LET r == rolls[k] IN
  /\ r.pc = "cancel"
  /\ games' = [CleanUpGames(r.group, r.origin) EXCEPT
                 ![r.gameId].status = "cancelled"]
  /\ activeGames' = [activeGames EXCEPT ![r.group] = 0]
  /\ gameTimers' = gameTimers \ {r.group}
  /\ rolls' = CleanUpRolls([rolls EXCEPT ![k] = ReplyRollError(r, "EmptyRound")],
                           r.group)
  /\ UNCHANGED <<bets, wallets, starts, joins, faults>>

\* the status update ('rolling') returns: winners, fee and payouts are
\* computed and the first winner's bet update is issued
RollDiceStatusNoSplit(k) ==
  LET r == rolls[k]
      gameData == games[r.gameId]
      winners == calculateWinners(gameData.players, r.diceResult) IN
  /\ r.pc = "status"
  /\ games' = [games EXCEPT ![r.gameId].status = "rolling"]
  /\ rolls' = [rolls EXCEPT ![k] =
       [r EXCEPT !.pc = "w_sel", !.winners = winners, !.idx = 1,
                 !.payoutSOL = gameData.pot["SOL"] - HouseFee(gameData.pot["SOL"]),
                 !.payoutUSDC = gameData.pot["USDC"] - HouseFee(gameData.pot["USDC"])]]
  /\ UNCHANGED <<activeGames, gameTimers, bets, wallets, starts, joins, faults>>

RollDiceStatus(k) ==
  LET r == rolls[k]
      gameData == games[r.gameId]
      winners == calculateWinners(gameData.players, r.diceResult) IN
  /\ r.pc = "status"
  /\ games' = [games EXCEPT ![r.gameId].status = "rolling"]
  /\ rolls' = [rolls EXCEPT ![k] =
       [r EXCEPT !.pc = "w_sel", !.winners = winners, !.idx = 1,
                 !.payoutSOL = Payout(gameData.pot["SOL"], winners),
                 !.payoutUSDC = Payout(gameData.pot["USDC"], winners)]]
  /\ UNCHANGED <<activeGames, gameTimers, bets, wallets, starts, joins, faults>>

WinnerPayout(r) ==
  IF r.winners[r.idx].token = "SOL" THEN r.payoutSOL ELSE r.payoutUSDC

\* token.toLowerCase()
toLowerCase(token) ==
  CASE token \in {"SOL", "sol"} -> "sol"
    [] token \in {"USDC", "usdc"} -> "usdc"
    [] OTHER -> token

\* the columns of the users row that the stats update of a winner and of a
\* loser increments
WinnerStats(winner) ==
  {"total_games", "total_wins", "total_won_" \o toLowerCase(winner.token)}

LoserStats(loser) ==
  {"total_games", "total_wagered_" \o toLowerCase(loser.token)}

\* the winner's bet update (won, payout, distance_from_result) and then the
\* winner's wallet row return: newBalance is computed and the wallet update
\* issued
RollDiceWinnerWallet(k) ==
  LET r == rolls[k]
      w == r.winners[r.idx] IN
  /\ r.pc = "w_sel"
  /\ bets' = [bets EXCEPT ![w.betId].won = "true",
                          ![w.betId].payout = WinnerPayout(r),
                          ![w.betId].distance = w.distance]
  /\ rolls' = [rolls EXCEPT ![k].pc = "w_upd",
                            ![k].balance = wallets[w.userId][BalanceField(w.token)]]
  /\ UNCHANGED <<activeGames, gameTimers, games, wallets, starts, joins, faults>>

\* the winner's wallet update returns, having written the row (ok) or not
\* (the store reports an error, which rollDice does not look at): the users
\* stats update is issued
RollDiceWinnerCreditThrows(k) ==
  LET r == rolls[k]
      w == r.winners[r.idx] IN
  /\ r.pc = "w_upd"
  /\ \E ok \in BOOLEAN :
       IF ok
       THEN /\ wallets' = [wallets EXCEPT
                             ![w.userId][BalanceField(w.token)] = r.balance + WinnerPayout(r)]
            /\ bets' = [bets EXCEPT ![w.betId].credits = @ + 1]
            /\ rolls' = [rolls EXCEPT ![k].pc = "w_stats", ![k].balance = 0]
            /\ UNCHANGED faults
       ELSE /\ faults > 0
            /\ faults' = faults - 1
            /\ rolls' = [rolls EXCEPT ![k] = DoneRoll(r)]
            /\ UNCHANGED <<wallets, bets>>
  /\ UNCHANGED <<activeGames, gameTimers, games, starts, joins>>

RollDiceWinnerCredit(k) ==
  LET r == rolls[k]
      w == r.winners[r.idx] IN
  /\ r.pc = "w_upd"
  /\ \E ok \in BOOLEAN :
       IF ok
       THEN /\ wallets' = [wallets EXCEPT
                             ![w.userId][BalanceField(w.token)] = r.balance + WinnerPayout(r)]
            /\ bets' = [bets EXCEPT ![w.betId].credits = @ + 1]
            /\ UNCHANGED faults
       ELSE /\ faults > 0
            /\ faults' = faults - 1
            /\ UNCHANGED <<wallets, bets>>
  /\ rolls' = [rolls EXCEPT ![k].pc = "w_stats", ![k].balance = 0]
  /\ UNCHANGED <<activeGames, gameTimers, games, starts, joins>>

\* after the last winner / loser: the next loop or the final games update
AfterWinners(r) ==
  LET losers == Losers(games[r.gameId].players, r.winners) IN
  IF Len(losers) > 0
  THEN [r EXCEPT !.pc = "l_bet", !.idx = 1, !.losers = losers]
  ELSE [r EXCEPT !.pc = "final", !.idx = 0]

\* the winner's stats update returns: next winner, or the losers
RollDiceWinnerStats(k) ==
  LET r == rolls[k]
      w == r.winners[r.idx] IN
  /\ r.pc = "w_stats"
  /\ bets' = [bets EXCEPT ![w.betId].stats = @ \cup WinnerStats(w)]
  /\ rolls' = [rolls EXCEPT ![k] =
       IF r.idx < Len(r.winners) THEN [r EXCEPT !.pc = "w_sel", !.idx = r.idx + 1]
       ELSE AfterWinners(r)]
  /\ UNCHANGED <<activeGames, gameTimers, games, wallets, starts, joins, faults>>

\* the loser's bet update (won: false, distance_from_result) and stats
\* update return: next loser, or the final games update
RollDiceLoser(k) ==
  LET r == rolls[k]
      loser == r.losers[r.idx] IN
  /\ r.pc = "l_bet"
  /\ bets' = [bets EXCEPT ![loser.betId].won = "false",
                          ![loser.betId].distance =
                             Abs(loser.chosenNumber - r.diceResult),
                          ![loser.betId].stats = @ \cup LoserStats(loser)]
  /\ rolls' = [rolls EXCEPT ![k] =
       IF r.idx < Len(r.losers) THEN [r EXCEPT !.idx = r.idx + 1]
       ELSE [r EXCEPT !.pc = "final", !.idx = 0, !.losers = <<>>]]
  /\ UNCHANGED <<activeGames, gameTimers, games, wallets, starts, joins, faults>>

\* the value rollDice returns after a settlement (part_000:423-431)
RollDiceResult(r) ==
  [success |-> TRUE, diceResult |-> r.diceResult, winners |-> r.winners,
   payoutSOL |-> r.payoutSOL, payoutUSDC |-> r.payoutUSDC,
   totalPlayers |-> Len(games[r.gameId].players), pot |-> games[r.gameId].pot]

\* the final games update (status 'finished') returns: clean up; rollDice
\* returns RollDiceResult(r) and finishGame awaits the sendMessage that
\* shows it
RollDiceFinishClearsAll(k) ==
  LET r == rolls[k] IN
  /\ r.pc = "final"
  /\ games' = [CleanUpGames(r.group, r.origin) EXCEPT
                 ![r.gameId].status = "finished",
                 ![r.gameId].diceResult = r.diceResult]
  /\ activeGames' = [g \in DOMAIN activeGames |-> 0]
  /\ gameTimers' = gameTimers \ {r.group}
  /\ rolls' = CleanUpRolls([rolls EXCEPT ![k] = DoneRoll(r)], r.group)
  /\ UNCHANGED <<bets, wallets, starts, joins, faults>>

RollDiceFinish(k) ==
  LET r == rolls[k] IN
  /\ r.pc = "final"
  /\ games' = [CleanUpGames(r.group, r.origin) EXCEPT
                 ![r.gameId].status = "finished",
                 ![r.gameId].diceResult = r.diceResult]
  /\ activeGames' = [activeGames EXCEPT ![r.group] = 0]
  /\ gameTimers' = gameTimers \ {r.group}
  /\ rolls' = CleanUpRolls([rolls EXCEPT ![k] = DoneRoll(r)], r.group)
  /\ UNCHANGED <<bets, wallets, starts, joins, faults>>

\* finishGame: the sendMessage that shows result.error returns
FinishGameReply(k) ==
  /\ rolls[k].pc = "reply"
  /\ rolls' = [rolls EXCEPT ![k] = DoneRoll(rolls[k])]
  /\ UNCHANGED <<activeGames, gameTimers, games, bets, wallets, starts, joins, faults>>

\* ------------------------------------------------------ specification
Next ==
  \/ \E g \in Groups, diceType \in DiceTypes : StartGameCall(g, diceType)
  \/ \E k \in StartSlots : StartGameInsert(k)
  \/ \E k \in StartSlots : StartGameReply(k)
  \/ \E g \in Groups, u \in Users, s \in Stakes, n \in Guesses :
       JoinGameCall(g, u, s.amount, s.token, n)
  \/ \E k \in JoinSlots : JoinGameWallet(k)
  \/ \E k \in JoinSlots : JoinGameBet(k)
  \/ \E k \in JoinSlots : JoinGameDebit(k)
  \/ \E k \in JoinSlots : JoinGameReply(k)
  \/ \E g \in Groups : HandleRoll(g)
  \/ \E k \in RollSlots : TimerFire(k)
  \/ \E k \in RollSlots : FinishGame(k)
  \/ \E k \in RollSlots : CancelGame(k)
  \/ \E k \in RollSlots : RollDiceStatus(k)
  \/ \E k \in RollSlots : RollDiceWinnerWallet(k)
  \/ \E k \in RollSlots : RollDiceWinnerCredit(k)
  \/ \E k \in RollSlots : RollDiceWinnerStats(k)
  \/ \E k \in RollSlots : RollDiceLoser(k)
  \/ \E k \in RollSlots : RollDiceFinish(k)
  \/ \E k \in RollSlots : FinishGameReply(k)

Spec == Init /\ [][Next]_vars

\* ------------------------------------------------- handlers that return
\* The steps that are not calls from outside: an awaited store or chat call
\* returns (the ports answer ok or error to every call), a timeout set by
\* setTimeout fires.
Steps ==
  \/ \E k \in StartSlots : StartGameInsert(k) \/ StartGameReply(k)
  \/ \E k \in JoinSlots :
       JoinGameWallet(k) \/ JoinGameBet(k) \/ JoinGameDebit(k) \/ JoinGameReply(k)
  \/ \E k \in RollSlots :
       \/ TimerFire(k) \/ FinishGame(k) \/ CancelGame(k) \/ RollDiceStatus(k)
       \/ RollDiceWinnerWallet(k) \/ RollDiceWinnerCredit(k)
       \/ RollDiceWinnerStats(k) \/ RollDiceLoser(k) \/ RollDiceFinish(k)
       \/ FinishGameReply(k)

\* one round opened, /dice commands with the SOL stake, and a store that
\* may fail one wallet update
InitFair ==
  /\ activeGames = [g \in Groups |-> 0]
  /\ gameTimers = {}
  /\ games = <<>>
  /\ bets = <<>>
  /\ wallets = [u \in Users |-> [t \in Tokens |-> 1200]]
  /\ starts = [k \in StartSlots |-> IF k = 1 THEN IdleStart ELSE DoneStart]
  /\ joins = [k \in JoinSlots |-> IdleJoin]
  /\ rolls = [k \in RollSlots |-> IdleRoll]
  /\ faults = MaxFaults

NextFair ==
  \/ \E g \in Groups, diceType \in DiceTypes : StartGameCall(g, diceType)
  \/ \E g \in Groups, u \in Users, n \in Guesses :
       JoinGameCall(g, u, 600, "SOL", n)
  \/ \E g \in Groups : HandleRoll(g)
  \/ Steps

SpecFair == InitFair /\ [][NextFair]_vars /\ WF_vars(Steps)

\* ------------------------------------------- settlement of one round
\* A round of group 1 with an arbitrary participant list (every guess of the
\* dice range, two stake amounts; the accounts take turns and each stakes
\* its own unit), whose joins have completed, at the point where rollDice
\* awaits its status update with an arbitrary outcome of the dice.
StakeAmounts == {600, 1200}

PlayerLists ==
  UNION {[1..n -> [chosenNumber : getDiceConfig("D6").min..getDiceConfig("D6").max,
                   amount : StakeAmounts]] : n \in 1..MaxPlayers}

AccountOf(i) == ((i - 1) % Cardinality(Users)) + 1

JoinedPlayers(l) ==
  [i \in 1..Len(l) |->
     [userId |-> AccountOf(i), amount |-> l[i].amount,
      token |-> IF AccountOf(i) = 1 THEN "SOL" ELSE "USDC",
      chosenNumber |-> l[i].chosenNumber, betId |-> i]]

RECURSIVE Staked(_, _, _)
Staked(players, userId, token) ==
  IF Len(players) = 0 THEN 0
  ELSE (IF players[1].userId = userId /\ players[1].token = token
        THEN players[1].amount ELSE 0)
       + Staked(Tail(players), userId, token)

InitWinners ==
  \E l \in PlayerLists, diceResult \in getDiceConfig("D6").min..getDiceConfig("D6").max :
    LET players == JoinedPlayers(l) IN
    /\ \A u \in Users, t \in Tokens : Staked(players, u, t) <= 1200
    /\ activeGames = [g \in Groups |-> 1]
    /\ gameTimers = {}
    /\ games = <<[NewGame(1, "D6") EXCEPT
                    !.players = players,
                    !.pot = [t \in Tokens |-> SumAmounts(players, t)]]>>
    /\ bets = [i \in 1..Len(players) |->
                 [gameId |-> 1, userId |-> players[i].userId,
                  amount |-> players[i].amount, token |-> players[i].token,
                  won |-> "unset", payout |-> 0, distance |-> -1,
                  debits |-> 1, credits |-> 0, stats |-> {}]]
    /\ wallets = [u \in Users |-> [t \in Tokens |-> 1200 - Staked(players, u, t)]]
    /\ starts = [k \in StartSlots |-> IF k = 1 THEN DoneStart ELSE IdleStart]
    /\ joins = [k \in JoinSlots |-> DoneJoin]
    /\ rolls = [k \in RollSlots |->
         IF k = 1 THEN [IdleRoll EXCEPT !.pc = "countdown", !.origin = "timer",
                                        !.group = 1, !.forGame = 1]
         ELSE IF k = 2 THEN [IdleRoll EXCEPT !.pc = "status", !.origin = "forced",
                                             !.group = 1, !.gameId = 1,
                                             !.diceResult = diceResult]
         ELSE IdleRoll]
    /\ faults = 0

NextWinners == \E k \in RollSlots : RollDiceStatus(k)

SpecWinners == InitWinners /\ [][NextWinners]_vars

\* --------------------------------------- settlement from start to end
\* A round of group 1 whose participants are distinct accounts that all
\* staked the same unit (1200 stands for 10 and 600 for 5 of the unit), at
\* the point where rollDice awaits its status update; rollDice then runs
\* alone up to its return.  The dice, guesses and outcomes are those of a
\* D6 round with guesses 3 and 5 and of a D100 round with guesses 10, 50
\* and 90.
SettleDice ==
  {[diceType |-> "D6", guesses |-> {3, 5}, results |-> {4, 5}],
   [diceType |-> "D100", guesses |-> {10, 50, 90}, results |-> {52}]}

SettleUsers == 1..MaxPlayers

InitSettle ==
  \E dice \in SettleDice, token \in Tokens, n \in 1..MaxPlayers :
  \E l \in [1..n -> [chosenNumber : dice.guesses, amount : StakeAmounts]],
     diceResult \in dice.results :
    LET players == [i \in 1..n |->
                      [userId |-> i, amount |-> l[i].amount, token |-> token,
                       chosenNumber |-> l[i].chosenNumber, betId |-> i]]
    IN
    /\ activeGames = [g \in Groups |-> 1]
    /\ gameTimers = {}
    /\ games = <<[NewGame(1, dice.diceType) EXCEPT
                    !.players = players,
                    !.pot = [t \in Tokens |-> SumAmounts(players, t)]]>>
    /\ bets = [i \in 1..n |->
                 [gameId |-> 1, userId |-> i, amount |-> players[i].amount,
                  token |-> token, won |-> "unset", payout |-> 0,
                  distance |-> -1, debits |-> 1, credits |-> 0, stats |-> {}]]
    /\ wallets = [u \in SettleUsers |-> [t \in Tokens |->
                    1200 - Staked(players, u, t)]]
    /\ starts = [k \in StartSlots |-> DoneStart]
    /\ joins = [k \in JoinSlots |-> DoneJoin]
    /\ rolls = [k \in RollSlots |->
         IF k = 1 THEN [IdleRoll EXCEPT !.pc = "status", !.origin = "timer",
                                        !.group = 1, !.forGame = 1,
                                        !.gameId = 1, !.diceResult = diceResult]
         ELSE IdleRoll]
    /\ faults = MaxFaults

NextSettle ==
  \/ \E k \in RollSlots : RollDiceStatus(k)
  \/ \E k \in RollSlots : RollDiceWinnerWallet(k)
  \/ \E k \in RollSlots : RollDiceWinnerCredit(k)
  \/ \E k \in RollSlots : RollDiceWinnerStats(k)
  \/ \E k \in RollSlots : RollDiceLoser(k)
  \/ \E k \in RollSlots : RollDiceFinish(k)

SpecSettle == InitSettle /\ [][NextSettle]_vars

\* ------------------------------------------------- joins on open rounds
\* Two groups, each with a round that has been opened (countdown pending,
\* or for one of them the countdown over and executeRoll waiting out the
\* dice animation with the outcome drawn) or with none, and /dice commands only: any account, either stake or a
\* stake of 0, a
\* guess inside the D6 range or just outside of it (min - 1, max + 1).
JoinGroups  == {1, 2}
JoinGuesses == {getDiceConfig("D6").min - 1, 3, getDiceConfig("D6").max + 1}
\* the stakes a /dice command can carry: /^\/dice ([\d.]+) (SOL|USDC) (\d+)$/i
\* also matches the amount 0
JoinStakes  == Stakes \cup {[token |-> "SOL", amount |-> 0]}

InitJoins ==
  \E open \in SUBSET JoinGroups :
  \E drawn \in {d \in SUBSET open : Cardinality(d) <= 1} :
  \E diceResult \in DiceResults :
    LET id == [g \in JoinGroups |->
                IF g \in open THEN Cardinality({h \in open : h <= g}) ELSE 0]
    IN
    /\ activeGames = id
    /\ gameTimers = {}
    /\ games = [i \in 1..Cardinality(open) |->
                  NewGame(CHOOSE g \in open : id[g] = i, "D6")]
    /\ bets = <<>>
    /\ wallets = [u \in Users |-> [t \in Tokens |-> 1200]]
    /\ starts = [k \in StartSlots |-> DoneStart]
    /\ joins = [k \in JoinSlots |-> IdleJoin]
    /\ rolls = [k \in RollSlots |->
         IF k <= Cardinality(open)
         THEN LET g == CHOOSE h \in open : id[h] = k IN
              IF g \in drawn
              THEN [IdleRoll EXCEPT !.pc = "anim", !.origin = "timer",
                                    !.group = g, !.forGame = k,
                                    !.diceResult = diceResult]
              ELSE [IdleRoll EXCEPT !.pc = "countdown", !.origin = "timer",
                                    !.group = g, !.forGame = k]
         ELSE IdleRoll]
    /\ faults = MaxFaults

NextJoins ==
  \/ \E g \in JoinGroups, u \in Users, s \in JoinStakes, n \in JoinGuesses :
       JoinGameCall(g, u, s.amount, s.token, n)
  \/ \E k \in JoinSlots : JoinGameWallet(k)
  \/ \E k \in JoinSlots : JoinGameBet(k)
  \/ \E k \in JoinSlots : JoinGameDebit(k)
  \/ \E k \in JoinSlots : JoinGameReply(k)

SpecJoins == InitJoins /\ [][NextJoins]_vars

\* ------------------------------------------- cancelGame with participants
\* cancelGame's refund loop: the wallet row of player idx returns (a roll
\* record at pc "c_sel" is a cancelGame call that awaits it)
CancelGameWallet(k) ==
  LET r == rolls[k]
      player == games[r.gameId].players[r.idx] IN
  /\ r.pc = "c_sel"
  /\ rolls' = [rolls EXCEPT ![k].pc = "c_upd",
                            ![k].balance = wallets[player.userId][BalanceField(player.token)]]
  /\ UNCHANGED <<activeGames, gameTimers, games, bets, wallets, starts, joins, faults>>

\* the refund written as balance + amount - fee
CancelGameRefundLessFee(k) ==
  LET r == rolls[k]
      player == games[r.gameId].players[r.idx] IN
  /\ r.pc = "c_upd"
  /\ wallets' = [wallets EXCEPT ![player.userId][BalanceField(player.token)] =
                    r.balance + player.amount - HouseFee(player.amount)]
  /\ bets' = [bets EXCEPT ![player.betId].credits = @ + 1]
  /\ rolls' = [rolls EXCEPT ![k].pc = "cancel", ![k].idx = 0, ![k].balance = 0]
  /\ UNCHANGED <<activeGames, gameTimers, games, starts, joins, faults>>

\* the wallet update (newBalance = currentBalance + player.amount) returns,
\* having written the row or not: the next player's wallet select, or after
\* the last player the games update (status 'cancelled')
CancelGameRefund(k) ==
  LET r == rolls[k]
      player == games[r.gameId].players[r.idx] IN
  /\ r.pc = "c_upd"
  /\ \E ok \in BOOLEAN :
       IF ok
       THEN /\ wallets' = [wallets EXCEPT ![player.userId][BalanceField(player.token)] =
                             r.balance + player.amount]
            /\ bets' = [bets EXCEPT ![player.betId].credits = @ + 1]
            /\ UNCHANGED faults
       ELSE /\ faults > 0
            /\ faults' = faults - 1
            /\ UNCHANGED <<wallets, bets>>
  /\ rolls' = [rolls EXCEPT ![k] =
       IF r.idx < Len(games[r.gameId].players)
       THEN [r EXCEPT !.pc = "c_sel", !.idx = r.idx + 1, !.balance = 0]
       ELSE [r EXCEPT !.pc = "cancel", !.idx = 0, !.balance = 0]]
  /\ UNCHANGED <<activeGames, gameTimers, games, starts, joins>>

\* A round of group 1 whose participants are distinct accounts, each with a
\* stake of either amount in either unit, at the point where cancelGame
\* awaits the wallet row of the first participant; cancelGame then runs
\* alone up to its clean up.
InitCancel ==
  \E n \in 1..MaxPlayers :
  \E l \in [1..n -> [token : Tokens, amount : StakeAmounts]] :
    LET players == [i \in 1..n |->
                      [userId |-> i, amount |-> l[i].amount, token |-> l[i].token,
                       chosenNumber |-> 3, betId |-> i]]
    IN
    /\ activeGames = [g \in Groups |-> 1]
    /\ gameTimers = {}
    /\ games = <<[NewGame(1, "D6") EXCEPT
                    !.players = players,
                    !.pot = [t \in Tokens |-> SumAmounts(players, t)]]>>
    /\ bets = [i \in 1..n |->
                 [gameId |-> 1, userId |-> i, amount |-> players[i].amount,
                  token |-> players[i].token, won |-> "unset", payout |-> 0,
                  distance |-> -1, debits |-> 1, credits |-> 0, stats |-> {}]]
    /\ wallets = [u \in SettleUsers |-> [t \in Tokens |->
                    1200 - Staked(players, u, t)]]
    /\ starts = [k \in StartSlots |-> DoneStart]
    /\ joins = [k \in JoinSlots |-> DoneJoin]
    /\ rolls = [k \in RollSlots |->
         IF k = 1 THEN [IdleRoll EXCEPT !.pc = "c_sel", !.origin = "timer",
                                        !.group = 1, !.forGame = 1,
                                        !.gameId = 1, !.idx = 1]
         ELSE IdleRoll]
    /\ faults = MaxFaults

NextCancel ==
  \/ \E k \in RollSlots : CancelGameWallet(k)
  \/ \E k \in RollSlots : CancelGameRefund(k)
  \/ \E k \in RollSlots : CancelGame(k)

SpecCancel == InitCancel /\ [][NextCancel]_vars

\* ------------------------------------------------- rounds of two groups
\* Every command on either of two groups, with one stake and one guess.
InitGroups ==
  /\ activeGames = [g \in JoinGroups |-> 0]
  /\ gameTimers = {}
  /\ games = <<>>
  /\ bets = <<>>
  /\ wallets = [u \in Users |-> [t \in Tokens |-> 1200]]
  /\ starts = [k \in StartSlots |-> IdleStart]
  /\ joins = [k \in JoinSlots |-> IdleJoin]
  /\ rolls = [k \in RollSlots |-> IdleRoll]
  /\ faults = 0

NextGroups ==
  \/ \E g \in JoinGroups, diceType \in DiceTypes : StartGameCall(g, diceType)
  \/ \E g \in JoinGroups, u \in Users : JoinGameCall(g, u, 600, "SOL", 3)
  \/ \E g \in JoinGroups : HandleRoll(g)
  \/ Steps

SpecGroups == InitGroups /\ [][NextGroups]_vars

\* ------------------------------------------------------ token spellings
\* The spellings of the unit that /^\/dice ([\d.]+) (SOL|USDC) (\d+)$/i
\* accepts and handleDice passes on as match[2] (here all upper or all
\* lower case), on a round of group 1 that has been opened; then the
\* joins, the timer and the settlement.
TokenSpellings == {"SOL", "USDC", "sol", "usdc"}

InitUnits ==
  /\ activeGames = [g \in Groups |-> 1]
  /\ gameTimers = {}
  /\ games = <<NewGame(1, "D6")>>
  /\ bets = <<>>
  /\ wallets = [u \in Users |-> [t \in Tokens |-> 1200]]
  /\ starts = [k \in StartSlots |-> DoneStart]
  /\ joins = [k \in JoinSlots |-> IdleJoin]
  /\ rolls = [k \in RollSlots |->
       IF k = 1 THEN [IdleRoll EXCEPT !.pc = "countdown", !.origin = "timer",
                                      !.group = 1, !.forGame = 1]
       ELSE IdleRoll]
  /\ faults = 0

NextUnits ==
  \/ \E u \in Users, token \in TokenSpellings, n \in Guesses :
       JoinGameCall(1, u, 600, token, n)
  \/ \E k \in JoinSlots :
       JoinGameWallet(k) \/ JoinGameBet(k) \/ JoinGameDebit(k) \/ JoinGameReply(k)
  \/ \E k \in RollSlots :
       \/ TimerFire(k) \/ FinishGame(k) \/ CancelGame(k) \/ RollDiceStatus(k)
       \/ RollDiceWinnerWallet(k) \/ RollDiceWinnerCredit(k)
       \/ RollDiceWinnerStats(k) \/ RollDiceLoser(k) \/ RollDiceFinish(k)
       \/ FinishGameReply(k)

SpecUnits == InitUnits /\ [][NextUnits]_vars

\* =================================================================
\* Properties
\* =================================================================
GameIds == 1..Len(games)
BetIds  == 1..Len(bets)

CountToken(players, token) ==
  Cardinality({i \in 1..Len(players) : players[i].token = token})

DistinctAccounts(players) ==
  \A i, j \in 1..Len(players) : i # j => players[i].userId # players[j].userId

\* C1: a round registered for a group is never replaced by another round
\* before it has been settled or cancelled (removed from the registry): of
\* overlapping startGame calls on one group at most one succeeds.
C1_RoundNeverReplaced ==
  [][\A g \in Groups :
       activeGames[g] # 0 => activeGames'[g] \in {0, activeGames[g]}]_vars

\* C2: no two participants of a round share the same account.
C2_NoDuplicateAccount ==
  \A id \in GameIds : DistinctAccounts(games[id].players)

\* C3: settlement runs at most once per round: the stake of each winner is
\* credited a payout at most once.
C3_CreditedAtMostOnce ==
  \A b \in BetIds : bets[b].credits <= 1

\* C4: a join request that arrives once rollDice has taken the round is
\* never admitted: the step that debits its stake, appends the participant
\* and adds to the pot does not happen.
C4_NoJoinWhileResolving ==
  [][\A k \in JoinSlots : joins[k].late => ~JoinGameDebit(k)]_vars

\* C5: every stake debited for a round that has been torn down (and on
\* which no resolution is still running) was included in the round's
\* settlement as a winner or a non-winner.
C5_DebitHasDisposition ==
  \A b \in BetIds :
    (/\ bets[b].debits > 0
     /\ games[bets[b].gameId].tornDownBy # "none"
     /\ ~Settling(bets[b].gameId))
    => bets[b].won # "unset"

\* C6: the countdown timer of a round that a forced resolution has already
\* resolved and torn down never fires.
C6_TimerCancelledByForcedRoll ==
  [][\A k \in RollSlots :
       (/\ rolls[k].pc = "countdown"
        /\ games[rolls[k].forGame].tornDownBy = "forced")
       => ~TimerFire(k)]_vars

\* C7: for every round and every unit, pot[unit] equals the sum of the
\* amounts of the round's participants staking that unit, in every
\* reachable state (in particular in every state before settlement).
C7_PotIsSumOfStakes ==
  \A id \in GameIds : \A t \in Tokens :
    games[id].pot[t] = SumAmounts(games[id].players, t)

C7_Witness ==
  \E id \in GameIds :
    /\ games[id].status = "waiting"
    /\ Len(games[id].players) = 2
    /\ games[id].players[1].token # games[id].players[2].token
    /\ games[id].pot["SOL"] = 600
    /\ games[id].pot["USDC"] = 1200

\* C8: when rollDice computes the payouts (of a round whose participants
\* are distinct accounts), the payout of each winner whose unit is u equals
\* distributable[u] divided by the number of winners whose unit is u.
C8_PayoutPerUnitWinners ==
  [][\A k \in RollSlots :
       (RollDiceStatus(k) /\ DistinctAccounts(games[rolls[k].gameId].players)) =>
         \A i \in 1..Len(rolls'[k].winners) :
           LET w == rolls'[k].winners[i]
               pot == games[rolls[k].gameId].pot[w.token]
           IN (IF w.token = "SOL" THEN rolls'[k].payoutSOL
                                  ELSE rolls'[k].payoutUSDC)
              = (pot - HouseFee(pot)) \div CountToken(rolls'[k].winners, w.token)]_vars

\* C9: at settlement (of a round whose participants are distinct accounts),
\* for every unit the stakes collected in the pot equal the fee retained
\* plus the payouts of the winners staking that unit.
C9_ValueConserved ==
  [][\A k \in RollSlots :
       (RollDiceStatus(k) /\ DistinctAccounts(games[rolls[k].gameId].players)) =>
         \A t \in Tokens :
           LET pot == games[rolls[k].gameId].pot[t]
               payout == IF t = "SOL" THEN rolls'[k].payoutSOL
                                      ELSE rolls'[k].payoutUSDC
           IN pot = HouseFee(pot) + payout * CountToken(rolls'[k].winners, t)]_vars

\* C10: for every non-empty participant list and every outcome of the dice,
\* the winners are exactly the participants at minimum distance from the
\* outcome, each once and in join order.
Closest(players, i, d) ==
  \A j \in 1..Len(players) :
    Abs(players[i].chosenNumber - d) <= Abs(players[j].chosenNumber - d)

C10_WinnersAreClosest ==
  \A k \in RollSlots :
    rolls[k].pc = "w_sel" =>
      LET players == games[rolls[k].gameId].players
          d == rolls[k].diceResult
          winners == rolls[k].winners IN
      /\ \A i \in 1..Len(players) :
           Closest(players, i, d) <=>
             \E j \in 1..Len(winners) : winners[j].betId = players[i].betId
      /\ Len(winners) =
           Cardinality({i \in 1..Len(players) : Closest(players, i, d)})
      /\ \A j \in 1..Len(winners) :
           /\ winners[j].distance = Abs(winners[j].chosenNumber - d)
           /\ \A i \in 1..Len(players) :
                (\A h \in 1..Len(winners) : winners[h].betId # players[i].betId)
                => Abs(players[i].chosenNumber - d) > winners[j].distance

\* settlement found two tied winners that did not guess the outcome: the
\* two participants that joined last, with different stake amounts
C10_Witness ==
  \E k \in RollSlots :
    /\ rolls[k].pc = "w_sel"
    /\ Len(games[rolls[k].gameId].players) = 3
    /\ Len(rolls[k].winners) = 2
    /\ rolls[k].winners[1].distance > 0
    /\ rolls[k].winners[1].betId = 2
    /\ rolls[k].winners[2].betId = 3
    /\ rolls[k].winners[1].amount # rolls[k].winners[2].amount

\* C11: in joinGame the debit of the stake and the admission are one unit:
\* a participant is in a round only if the wallet update that debits its
\* stake was made (when the debit fails no participant is added and the pot
\* is not increased).
C11_NoParticipantWithoutDebit ==
  \A id \in GameIds : \A i \in 1..Len(games[id].players) :
    bets[games[id].players[i].betId].debits > 0

\* the stakes of account userId in unit token over the rounds gs
RECURSIVE StakedInGames(_, _, _)
StakedInGames(gs, userId, token) ==
  IF Len(gs) = 0 THEN 0
  ELSE Staked(gs[1].players, userId, token)
       + StakedInGames(Tail(gs), userId, token)

\* C12: whatever the interleaving of the joins of one account, its balance
\* never drops below zero and, as long as the store has failed no wallet
\* update and no round holds an account twice (the joins are in different
\* groups), it has decreased from the initial 1200 by exactly the sum of the
\* stakes with which the account was admitted: a join whose stake is no
\* longer covered adds no participant.
C12_BalanceCoversAdmittedStakes ==
  \A u \in Users, t \in Tokens :
    /\ wallets[u][t] >= 0
    /\ (faults = MaxFaults /\ \A id \in GameIds : DistinctAccounts(games[id].players))
         => wallets[u][t] = 1200 - StakedInGames(games, u, t)

\* C13: a startGame call on a group that has a round registered (waiting or
\* being resolved) returns at once with the AlreadyActive error and leaves
\* every round (participants, pot) and the registry as they were; a call on
\* a group that has none, in particular after its round was settled or
\* cancelled and removed, passes that check, and once the store has created
\* the row the new, empty round is registered for the group.
C13_AlreadyActiveUntilTornDown ==
  [][/\ \A g \in Groups, diceType \in DiceTypes :
          StartGameCall(g, diceType) =>
            LET k == FreeSlot(starts, StartSlots) IN
            IF activeGames[g] # 0
            THEN /\ starts'[k] = ReplyStart("AlreadyActive")
                 /\ games' = games
                 /\ activeGames' = activeGames
            ELSE starts'[k].pc = "insert"
     /\ \A k \in StartSlots :
          (StartGameInsert(k) /\ Len(games') > Len(games)) =>
            /\ activeGames'[starts[k].group] = Len(games')
            /\ games'[Len(games')].players = <<>>
            /\ games'[Len(games')].status = "waiting"]_vars

\* a round opened by a startGame call made after the group's previous round
\* was torn down is registered
C13_Witness ==
  \E id \in GameIds :
    /\ games[id].reopened
    /\ activeGames[games[id].group] = id

\* C14: once an account is a participant of a round, every further
\* joinGame call of that account on the round, whatever stake and guess it
\* carries, returns the AlreadyJoined error and leaves the rounds
\* (participants, pots), the bets and the balances as they were.
C14_SecondJoinAlreadyJoined ==
  [][\A g \in JoinGroups, u \in Users, s \in JoinStakes, n \in JoinGuesses :
       (/\ JoinGameCall(g, u, s.amount, s.token, n)
        /\ activeGames[g] # 0
        /\ HasPlayer(games[activeGames[g]].players, u)) =>
         LET k == FreeSlot(joins, JoinSlots) IN
         /\ joins'[k].pc = "reply"
         /\ joins'[k].error = "AlreadyJoined"
         /\ games' = games /\ bets' = bets /\ wallets' = wallets]_vars

\* C15: a joinGame call on a group without a round, or with a guess outside
\* the range of the round's dice (such as max + 1), or of an account that is
\* already a participant returns at once with an error of a kind that
\* applies, and has changed nothing: rounds (participants, pots), bets and
\* balances are as they were and no store call was issued.
C15_ValidationBeforeSideEffects ==
  [][\A g \in JoinGroups, u \in Users, s \in JoinStakes, n \in JoinGuesses :
       JoinGameCall(g, u, s.amount, s.token, n) =>
         LET k == FreeSlot(joins, JoinSlots)
             noRound == activeGames[g] = 0
             badGuess == /\ ~noRound
                         /\ \/ n < games[activeGames[g]].diceConfig.min
                            \/ n > games[activeGames[g]].diceConfig.max
             joined == /\ ~noRound
                       /\ HasPlayer(games[activeGames[g]].players, u)
         IN (noRound \/ badGuess \/ joined) =>
              /\ joins'[k].pc = "reply"
              /\ \/ joins'[k].error = "NoActiveRound" /\ noRound
                 \/ joins'[k].error = "InvalidGuess" /\ badGuess
                 \/ joins'[k].error = "AlreadyJoined" /\ joined
              /\ games' = games /\ bets' = bets /\ wallets' = wallets]_vars

\* a guess outside the range was rejected on a round that has a participant
C15_Witness ==
  \E k \in JoinSlots :
    /\ joins[k].pc = "reply"
    /\ joins[k].error = "InvalidGuess"
    /\ \E id \in GameIds : Len(games[id].players) = 1

\* C16: when the wallet row read by joinGame holds less than the stake in
\* the stake's unit, the call returns the InsufficientFunds error: no
\* participant is added, no pot changes, no bet is created and no balance
\* is written.
C16_InsufficientFundsNoEffect ==
  [][\A k \in JoinSlots :
       (/\ JoinGameWallet(k)
        /\ wallets[joins[k].userId][joins[k].token] < joins[k].amount) =>
         /\ joins'[k].pc = "reply"
         /\ joins'[k].error = "InsufficientFunds"
         /\ games' = games /\ bets' = bets /\ wallets' = wallets]_vars

\* an account that has staked its 1200 USDC was refused a second such stake
C16_Witness ==
  \E k \in JoinSlots :
    /\ joins[k].pc = "reply"
    /\ joins[k].error = "InsufficientFunds"
    /\ \E u \in Users : wallets[u]["USDC"] = 0

\* C17: when rollDice finds the round of the group without participants it
\* takes the cancelGame path and reads or writes no wallet; when that path
\* completes the round's status is 'cancelled', the group's entry is removed
\* from activeGames, no wallet and no bet has been written and rollDice
\* returns the EmptyRound error ('No players in game! Game cancelled.').
C17_EmptyRoundCancelled ==
  [][\A k \in RollSlots :
       /\ (/\ FinishGame(k)
           /\ activeGames[rolls[k].group] # 0
           /\ Len(games[activeGames[rolls[k].group]].players) = 0) =>
            /\ rolls'[k].pc = "cancel"
            /\ rolls'[k].gameId = activeGames[rolls[k].group]
            /\ wallets' = wallets
       /\ CancelGame(k) =>
            /\ games'[rolls[k].gameId].status = "cancelled"
            /\ activeGames'[rolls[k].group] = 0
            /\ wallets' = wallets
            /\ bets' = bets
            /\ rolls'[k].pc = "reply"
            /\ rolls'[k].error = "EmptyRound"]_vars

\* the countdown of a round that nobody joined has run out: the round is
\* cancelled and removed, every balance is the initial one
C17_Witness ==
  \E k \in RollSlots :
    /\ rolls[k].pc = "reply"
    /\ rolls[k].error = "EmptyRound"
    /\ rolls[k].origin = "timer"
    /\ games[rolls[k].gameId].status = "cancelled"
    /\ games[rolls[k].gameId].players = <<>>
    /\ activeGames[rolls[k].group] = 0
    /\ bets = <<>>
    /\ \A u \in Users, t \in Tokens : wallets[u][t] = 1200

\* the participants of a finished round that are closest to its outcome
ClosestCount(g) ==
  Cardinality({i \in 1..Len(g.players) : Closest(g.players, i, g.diceResult)})

\* C18: in a settled round whose stakes all use one unit, the payout of each
\* winner is (pot - 2% of pot) / number of winners and a winner that was
\* credited holds its balance after the stake plus that payout; every other
\* participant received no credit.  With 120 standing for 1 of the unit:
\* two tied winners of a pot of 20 (2400) get 9.8 (1176) each and the sole
\* winner of a pot of 15 (1800) gets 14.7 (1764).
C18_SingleUnitPayout ==
  \A id \in GameIds :
    LET g == games[id]
        token == g.players[1].token
        pot == g.pot[token]
        n == ClosestCount(g)
    IN (/\ g.status = "finished"
        /\ \A i \in 1..Len(g.players) : g.players[i].token = token) =>
       \A i \in 1..Len(g.players) :
         LET p == g.players[i]
             b == bets[p.betId]
             staked == 1200 - p.amount
         IN IF Closest(g.players, i, g.diceResult)
            THEN /\ b.payout * n * 100 = pot * (100 - 2)
                 /\ (pot = 2400 /\ n = 2) => b.payout = 1176
                 /\ (pot = 1800 /\ n = 1) => b.payout = 1764
                 /\ b.credits <= 1
                 /\ wallets[p.userId][token] = staked + b.credits * b.payout
            ELSE /\ b.credits = 0
                 /\ wallets[p.userId][token] = staked

\* a D6 round in which guesses 3 and 5 staked 10 each and the outcome was 4
\* is settled: both accounts hold 9.8
C18_Witness ==
  \E id \in GameIds :
    LET g == games[id] IN
    /\ g.status = "finished"
    /\ g.diceType = "D6" /\ g.diceResult = 4
    /\ Len(g.players) = 2
    /\ g.players[1].chosenNumber = 3 /\ g.players[2].chosenNumber = 5
    /\ g.pot["SOL"] = 2400
    /\ bets[1].payout = 1176 /\ bets[2].payout = 1176
    /\ wallets[1]["SOL"] = 1176 /\ wallets[2]["SOL"] = 1176

\* C19: in a settled round every participant's bet is recorded: a winner's
\* bet has won = true, its payout and its distance, and the winner's
\* games, wins, won and wagered statistics were incremented; any other
\* participant's bet has won = false and its distance, its games and
\* wagered statistics were incremented and it received no credit.
C19_EveryParticipantRecorded ==
  \A id \in GameIds :
    LET g == games[id] IN
    g.status = "finished" =>
      \A i \in 1..Len(g.players) :
        LET p == g.players[i]
            b == bets[p.betId]
            unit == toLowerCase(p.token)
        IN /\ b.distance = Abs(p.chosenNumber - g.diceResult)
           /\ IF Closest(g.players, i, g.diceResult)
              THEN /\ b.won = "true"
                   /\ b.payout * ClosestCount(g) * 100 = g.pot[p.token] * (100 - 2)
                   /\ b.stats = {"total_games", "total_wins",
                                 "total_won_" \o unit, "total_wagered_" \o unit}
              ELSE /\ b.won = "false"
                   /\ b.credits = 0
                   /\ b.stats = {"total_games", "total_wagered_" \o unit}

\* the winners of the settlement of roll r whose wallet was not credited
NotCredited(r) ==
  {r.winners[i].userId : i \in {j \in 1..Len(r.winners) :
                                  bets[r.winners[j].betId].credits = 0}}

\* the winners that a result of rollDice names as not credited
ReportedNotCredited(result) ==
  IF "creditFailed" \in DOMAIN result THEN result.creditFailed ELSE {}

\* C20: when the credit of a winner fails, settlement still completes: the
\* round becomes 'finished' and is removed from the registry, and the
\* result that rollDice returns names exactly the winners whose credit
\* failed (the other winners having been credited).
C20_FailedCreditsReported ==
  [][\A k \in RollSlots :
       RollDiceFinish(k) =>
         /\ games'[rolls[k].gameId].status = "finished"
         /\ activeGames'[rolls[k].group] = 0
         /\ ReportedNotCredited(RollDiceResult(rolls[k])) = NotCredited(rolls[k])]_vars

\* C21: when the store fails to create the row of a round, startGame
\* returns the PersistenceFailure error and no round is registered; when it
\* fails to create the row of a stake, joinGame returns the
\* PersistenceFailure error and the participant lists, the pots and the
\* balances are as they were; the reply that follows either error changes
\* none of them.
C21_FailedInsertAborts ==
  [][/\ \A k \in StartSlots :
          /\ (StartGameInsert(k) /\ games' = games) =>
               /\ starts'[k] = ReplyStart("PersistenceFailure")
               /\ activeGames' = activeGames
          /\ (starts[k].pc = "reply" /\ starts'[k] # starts[k]) =>
               /\ activeGames' = activeGames
               /\ games' = games
     /\ \A k \in JoinSlots :
          /\ (JoinGameBet(k) /\ bets' = bets) =>
               /\ joins'[k] = ReplyJoin("PersistenceFailure")
               /\ games' = games
               /\ wallets' = wallets
          /\ (joins[k].pc = "reply" /\ joins'[k] # joins[k]) =>
               /\ games' = games
               /\ wallets' = wallets
               /\ bets' = bets]_vars

\* a startGame and a joinGame whose inserts have both failed
C21_Witness ==
  /\ \E k \in StartSlots : starts[k] = ReplyStart("PersistenceFailure")
  /\ \E k \in JoinSlots : joins[k] = ReplyJoin("PersistenceFailure")

\* the errors the three operations return
ErrorKinds ==
  {"AlreadyActive", "NoActiveRound", "InvalidGuess", "AlreadyJoined",
   "InsufficientFunds", "PersistenceFailure", "EmptyRound"}

Stuck(id) ==
  /\ id \in GameIds
  /\ games[id].status = "waiting"
  /\ activeGames[games[id].group] # id
  /\ ~Settling(id)

\* C23: each round that has been opened is settled or cancelled and removed
\* from the registry by the timers alone: as long as nobody sends /roll, no
\* round is left waiting where no timer can reach it.
C23_EveryRoundResolved ==
  (\A k \in RollSlots : rolls[k].origin # "forced") =>
    \A id \in 1..MaxStarts : ~Stuck(id)

\* the step is taken by a handler that was called for group g
ActsOn(g) ==
  \/ \E k \in StartSlots :
       starts'[k] # starts[k] /\ g \in {starts[k].group, starts'[k].group}
  \/ \E k \in JoinSlots :
       joins'[k] # joins[k] /\ g \in {joins[k].group, joins'[k].group}
  \/ \E k \in RollSlots :
       rolls'[k] # rolls[k] /\ g \in {rolls[k].group, rolls'[k].group}

\* C24: a step of a handler called for one group leaves the registry entry
\* of every other group, and the participants and pot of every round of
\* every other group, as they were.
C24_GroupsIndependent ==
  [][\A g \in JoinGroups :
       ~ActsOn(g) =>
         /\ activeGames'[g] = activeGames[g]
         /\ \A id \in GameIds :
              games[id].group = g =>
                /\ games'[id].players = games[id].players
                /\ games'[id].pot = games[id].pot]_vars

\* group 1 has a round with a participant registered while a round of
\* group 2 has been settled and removed
C24_Witness ==
  /\ activeGames[1] # 0
  /\ Len(games[activeGames[1]].players) > 0
  /\ \E id \in GameIds :
       /\ games[id].group = 2
       /\ games[id].status = "finished"
       /\ activeGames[2] = 0

\* C25: when cancelGame has cancelled a round that has participants, the
\* round has status 'cancelled' and is not registered; every participant
\* was credited at most once, on its own account and unit and with exactly
\* its stake (no fee is kept), its other balance is untouched, and every
\* participant whose wallet update the store did not fail was credited.
C25_CancelRefundsStakes ==
  \A id \in GameIds :
    LET g == games[id] IN
    (g.status = "cancelled" /\ Len(g.players) > 0) =>
      /\ activeGames[g.group] # id
      /\ Cardinality({i \in 1..Len(g.players) :
                        bets[g.players[i].betId].credits = 0})
           = MaxFaults - faults
      /\ \A i \in 1..Len(g.players) :
           LET p == g.players[i]
               b == bets[p.betId]
           IN /\ b.credits <= 1
              /\ wallets[p.userId][p.token] = (1200 - p.amount) + b.credits * p.amount
              /\ \A t \in Tokens \ {p.token} : wallets[p.userId][t] = 1200

\* a cancelled round of three participants with stakes in both units, all
\* refunded
C25_Witness ==
  \E id \in GameIds :
    LET g == games[id] IN
    /\ g.status = "cancelled"
    /\ Len(g.players) = 3
    /\ g.pot["SOL"] > 0 /\ g.pot["USDC"] > 0
    /\ \A u \in SettleUsers, t \in Tokens : wallets[u][t] = 1200
    /\ \A i \in 1..3 : bets[i].credits = 1

\* C26: the stake of every participant of every round is strictly
\* positive.
C26_StakePositive ==
  \A id \in GameIds :
    \A i \in 1..Len(games[id].players) : games[id].players[i].amount > 0

\* the status writes the spec allows
StatusOrder ==
  {<<"waiting", "rolling">>, <<"rolling", "finished">>, <<"waiting", "cancelled">>}

\* C27: every write of a round's status follows waiting -> rolling ->
\* finished or waiting -> cancelled; once it is finished or cancelled no
\* write changes it.
C27_StatusOrder ==
  [][\A id \in GameIds :
       games'[id].status # games[id].status =>
         <<games[id].status, games'[id].status>> \in StatusOrder]_vars

\* C28: participants are appended in the order their /dice commands
\* arrived.  Commands take the join slots in the order they arrive, and a
\* joinGame that awaits its wallet update (pc "debit") is appended when the
\* update returns, whatever the store answers: so no joinGame is appended
\* to a round while one of another account that arrived earlier for the
\* same round is still awaiting its wallet update.
C28_JoinOrder ==
  [][\A k1, k2 \in JoinSlots :
       (/\ k1 < k2
        /\ joins[k1].pc = "debit"
        /\ joins[k2].pc = "debit"
        /\ joins[k1].gameId = joins[k2].gameId
        /\ joins[k1].userId # joins[k2].userId)
       => ~JoinGameDebit(k2)]_vars

\* C29: a round whose outcome executeRoll has drawn, and which finishGame
\* has not yet taken up, admits no participant: started empty at the draw,
\* it is still empty.
C29_NoJoinAfterDraw ==
  \A k \in RollSlots :
    rolls[k].pc = "anim" => games[rolls[k].forGame].players = <<>>

\* what a settlement credits to its winners that staked token: each gets
\* WinnerPayout
RECURSIVE SumPayouts(_, _, _)
SumPayouts(r, i, token) ==
  IF i = 0 THEN 0
  ELSE SumPayouts(r, i - 1, token)
       + (IF r.winners[i].token = token
          THEN WinnerPayout([r EXCEPT !.idx = i]) ELSE 0)

\* C30: in every settlement and for each unit, the payouts of the winners
\* that staked the unit add up to no more than the pot of the unit less
\* the 2% fee.
C30_PayoutsWithinPot ==
  \A k \in RollSlots :
    rolls[k].pc = "w_sel" =>
      \A token \in Tokens :
        SumPayouts(rolls[k], Len(rolls[k].winners), token) * 100
          <= games[rolls[k].gameId].pot[token] * (100 - 2)

\* a settlement with two winners in one unit and a pot in both units
C30_Witness ==
  \E k \in RollSlots :
    /\ rolls[k].pc = "w_sel"
    /\ Len(rolls[k].winners) = 2
    /\ \A i \in 1..2 : rolls[k].winners[i].token = "SOL"
    /\ rolls[k].payoutSOL > 0
    /\ games[rolls[k].gameId].pot["USDC"] > 0

\* C31: the unit of every participant is one of the pot keys SOL and USDC:
\* the step that admits a participant adds its stake to the pot entry of
\* its unit and to no other and, when the store writes the debit, takes it
\* from the balance of that unit and from no other; the payout of a winner
\* is computed from the pot of the winner's unit and credited to the
\* balance of that unit.
C31_OneUnitThroughout ==
  [][/\ \A k \in JoinSlots :
          JoinGameDebit(k) =>
            LET j == joins[k] IN
            /\ j.token \in Tokens
            /\ DOMAIN games'[j.gameId].pot = Tokens
            /\ \A t \in Tokens :
                 games'[j.gameId].pot[t] =
                   games[j.gameId].pot[t] + (IF t = j.token THEN j.amount ELSE 0)
            /\ \A u \in DOMAIN wallets, t \in Tokens :
                 wallets'[u][t] # wallets[u][t] => (u = j.userId /\ t = j.token)
     /\ \A k \in RollSlots :
          /\ RollDiceStatus(k) =>
               LET r == rolls'[k] IN
               \A i \in 1..Len(r.winners) :
                 /\ r.winners[i].token \in Tokens
                 /\ WinnerPayout([r EXCEPT !.idx = i]) =
                      Payout(games[r.gameId].pot[r.winners[i].token], r.winners)
          /\ RollDiceWinnerCredit(k) =>
               LET r == rolls[k]
                   w == r.winners[r.idx] IN
               /\ w.token \in Tokens
               /\ \A u \in DOMAIN wallets, t \in Tokens :
                    wallets'[u][t] # wallets[u][t] =>
                      (u = w.userId /\ t = w.token)]_vars

\* the wallet writes the store made for the first n stakes, as they add up
\* for account userId and unit token: each debit takes the stake, each
\* credit adds the payout
RECURSIVE LedgerSum(_, _, _)
LedgerSum(n, userId, token) ==
  IF n = 0 THEN 0
  ELSE LedgerSum(n - 1, userId, token)
       + (IF bets[n].userId = userId /\ bets[n].token = token
          THEN bets[n].credits * bets[n].payout - bets[n].debits * bets[n].amount
          ELSE 0)

\* C32: no wallet write is lost.  As long as every group has had one round
\* at most, no round holds an account twice and nobody has sent /roll (so
\* that each round is settled once and the joins of an account are in
\* different groups), the balance of every account in every unit is its
\* initial 1200 less the stakes debited plus the payouts credited.
C32_NoLostUpdate ==
  (/\ \A id1, id2 \in GameIds : games[id1].group = games[id2].group => id1 = id2
   /\ \A id \in GameIds : DistinctAccounts(games[id].players)
   /\ \A k \in RollSlots : rolls[k].origin # "forced")
  => \A u \in Users, t \in Tokens :
       wallets[u][t] = 1200 + LedgerSum(Len(bets), u, t)

====
